---- MODULE Spec2Model ----
(***************************************************************************)
(* Request authorization and rate limiting pipeline of the stock data      *)
(* service: get_auth_context, the require_* dependencies, the sliding      *)
(* window RateLimitService over the in-memory CacheService, and the        *)
(* services that mutate the users and api_keys collections.                *)
(*                                                                         *)
(* Time is in whole seconds.  Strings that the code parses are sequences   *)
(* of atoms; absent (None) and empty strings are both the empty sequence,  *)
(* which is how the code treats them (both are falsy).                     *)
(***************************************************************************)
EXTENDS Integers, Sequences, FiniteSets, TLC

VARIABLES users, api_keys, _cache, issued, now, served, hist, resp, inflight

vars == <<users, api_keys, _cache, issued, now, served, hist, resp, inflight>>

(***************************************************************************)
(* Bounds of the model                                                     *)
(***************************************************************************)
\* the clock advances in coarse steps of Step seconds and fine steps of 1 s
Step == 1800
\* number of 1 s steps taken after each coarse step
MaxFine == 1
\* last instant of the clock
MaxTime == 3601
\* number of requests served in one behaviour
MaxRequests == 3
\* number of requests served in one behaviour of SpecAuth and SpecAuthz
MaxAuthRequests == 2
\* number of tokens issued by login in one behaviour
MaxTokens == 3
\* UNAUTHENTICATED_RATE_LIMIT of the deployment (settings.py reads the env)
unauthenticated_rate_limit == 2

(***************************************************************************)
(* Program constants                                                       *)
(***************************************************************************)
default_window == 3600
rate_limit_window_default == 3600
jwt_access_token_expire_minutes == 60
TTL_MARGIN == 300
CLEANUP_EVERY == 10
FAIL_OPEN_LIMIT == 1000
FAIL_OPEN_WINDOW == 3600
password_min_length == 8
rate_limit_requests_default == 1000

default_limit == unauthenticated_rate_limit

(***************************************************************************)
(* Enumerations (models/auth.py)                                           *)
(***************************************************************************)
UserRole == {"admin", "user", "readonly"}
APIKeyScope == {"read", "write", "admin"}

NoTime == -1

(***************************************************************************)
(* Strings: isoformat / fromisoformat, lexicographic order, split          *)
(***************************************************************************)
\* datetime.isoformat(): positional fields, most significant first
isoformat(t) == <<t \div 3600, (t % 3600) \div 60, t % 60>>

fromisoformat(s) == s[1] * 3600 + s[2] * 60 + s[3]

\* Python's str order on the fixed-width fields
RECURSIVE StrLess(_, _)
StrLess(a, b) ==
    IF b = <<>> THEN FALSE
    ELSE IF a = <<>> THEN TRUE
    ELSE IF Head(a) < Head(b) THEN TRUE
    ELSE IF Head(a) > Head(b) THEN FALSE
    ELSE StrLess(Tail(a), Tail(b))

\* min(list_of_str)
RECURSIVE min_str(_)
min_str(l) ==
    IF Len(l) = 1 THEN l[1]
    ELSE LET m == min_str(Tail(l)) IN IF StrLess(m, Head(l)) THEN m ELSE Head(l)

\* the comprehension without its filter
recent_of_keeps_all(l, window_start) == l

\* [req_time for req_time in l if fromisoformat(req_time) > window_start]
RECURSIVE recent_of(_, _)
recent_of(l, window_start) ==
    IF l = <<>> THEN <<>>
    ELSE IF fromisoformat(Head(l)) > window_start
         THEN <<Head(l)>> \o recent_of(Tail(l), window_start)
         ELSE recent_of(Tail(l), window_start)

\* ":" in s
HasColon(s) == \E i \in 1..Len(s) : s[i] = ":"

\* s.split(":", 1)
split_colon(s) ==
    LET i == CHOOSE j \in 1..Len(s) : s[j] = ":" /\ \A k \in 1..(j-1) : s[k] # ":"
    IN  <<SubSeq(s, 1, i - 1), SubSeq(s, i + 1, Len(s))>>

\* a or b  (on strings)
StrOr(a, b) == IF a # <<>> THEN a ELSE b

(***************************************************************************)
(* CacheService (services/cache_service.py).  The dictionary key is the    *)
(* md5 of the keyword arguments, one per rate-limit cache key; the model   *)
(* uses the rate-limit cache key itself.  datetime.now() is the clock now. *)
(***************************************************************************)
_is_expired(cache_entry, t) == t > cache_entry.expires_at

_cleanup_expired(c, t) ==
    [k \in {x \in DOMAIN c : ~_is_expired(c[x], t)} |-> c[k]]

NoData == [requests |-> <<>>, count |-> 0]

\* a lookup that does not see what the other requests have stored
cache_get_misses(c, key, t) == [found |-> FALSE, data |-> NoData, cache |-> c]

\* CacheService.get: the value (found = FALSE for None) and the dictionary
cache_get(c, key, t) ==
    IF key \in DOMAIN c
    THEN IF ~_is_expired(c[key], t)
         THEN [found |-> TRUE, data |-> c[key].data, cache |-> c]
         ELSE [found |-> FALSE, data |-> NoData,
               cache |-> [k \in DOMAIN c \ {key} |-> c[k]]]
    ELSE [found |-> FALSE, data |-> NoData, cache |-> c]

\* CacheService.set with an explicit ttl
cache_set(c, key, data, ttl, t) ==
    LET entry == [data |-> data, expires_at |-> t + ttl, created_at |-> t]
        c1 == [k \in DOMAIN c \cup {key} |-> IF k = key THEN entry ELSE c[k]]
    IN  IF Cardinality(DOMAIN c1) % CLEANUP_EVERY = 0
        THEN _cleanup_expired(c1, t)
        ELSE c1

\* CacheService.delete
cache_delete(c, key) == [k \in DOMAIN c \ {key} |-> c[k]]

\* CacheService.clear: every entry of the dictionary is stored under
\* "rate_limit_data:<md5 of the quota key>", the only prefix this model
\* keeps; no prefix (None or "") empties the dictionary
cache_clear(c, prefix) ==
    IF prefix # ""
    THEN [k \in {x \in DOMAIN c : prefix # "rate_limit_data"} |-> c[k]]
    ELSE <<>>

(***************************************************************************)
(* RateLimitService (services/rate_limit_service.py)                       *)
(***************************************************************************)
_get_cache_key(identifier, endpoint) ==
    IF endpoint # ""
    THEN <<"rate_limit">> \o identifier \o <<endpoint>>
    ELSE <<"rate_limit">> \o identifier

\* the constructor with limit and window exchanged
RateLimitInfo_limit_window_swapped(made, remaining, reset, limit, window) ==
    [limit |-> window, window |-> limit,
     requests_made |-> made, requests_remaining |-> remaining, reset_time |-> reset]

RateLimitInfo(made, remaining, reset, limit, window) ==
    [limit |-> limit, window |-> window,
     requests_made |-> made, requests_remaining |-> remaining, reset_time |-> reset]

\* the quota store operation that raises during a request, if any
CacheFaults == {"cache_get", "cache_set"}

\* RateLimitService.check_rate_limit at utcnow() = t: the RateLimitInfo it
\* returns and the cache it leaves; raised when cache_service.get or
\* cache_service.set raised (the exception propagates to the caller)
check_rate_limit(c, identifier, limit, window, endpoint, t, fault) ==
    LET cache_key == _get_cache_key(identifier, endpoint)
        window_start == t - window
        got == cache_get(c, cache_key, t)
        current_data == IF got.found THEN got.data ELSE NoData
        recent_requests == recent_of(current_data.requests, window_start)
        current_count == Len(recent_requests)
    IN  IF fault = "cache_get"
        THEN [raised |-> TRUE, info |-> RateLimitInfo(0, 0, 0, 0, 0), cache |-> c]
        ELSE IF current_count >= limit
        THEN LET oldest_request == IF recent_requests # <<>>
                                   THEN min_str(recent_requests)
                                   ELSE isoformat(t)
                 reset_time == fromisoformat(oldest_request) + window
             IN  [raised |-> FALSE,
                  info |-> RateLimitInfo(current_count, 0, reset_time, limit, window),
                  cache |-> got.cache]
        ELSE IF fault = "cache_set"
        THEN [raised |-> TRUE, info |-> RateLimitInfo(0, 0, 0, 0, 0),
              cache |-> got.cache]
        ELSE LET updated == Append(recent_requests, isoformat(t))
                 updated_data == [requests |-> updated, count |-> Len(updated)]
             IN  [raised |-> FALSE,
                  info |-> RateLimitInfo(Len(updated), limit - Len(updated),
                                         t + window, limit, window),
                  cache |-> cache_set(got.cache, cache_key, updated_data,
                                      window + TTL_MARGIN, t)]

check_user_rate_limit(c, user, endpoint, t, fault) ==
    check_rate_limit(c, <<"user", user.id>>, user.rate_limit_requests,
                     user.rate_limit_window, endpoint, t, fault)

check_api_key_rate_limit(c, api_key, endpoint, t, fault) ==
    check_rate_limit(c, <<"api_key", api_key.key_id>>, api_key.rate_limit_requests,
                     api_key.rate_limit_window, endpoint, t, fault)

check_ip_rate_limit(c, ip_address, endpoint, t, fault) ==
    check_rate_limit(c, <<"ip", ip_address>>, default_limit, default_window,
                     endpoint, t, fault)

is_rate_limited(rate_limit_info) == rate_limit_info.requests_remaining <= 0

(***************************************************************************)
(* Documents of the users and api_keys collections (models/auth.py)        *)
(***************************************************************************)
NoUser == [id |-> "none", username |-> "", role |-> "none", is_active |-> FALSE,
           is_verified |-> FALSE, hashed_password |-> <<>>, last_login |-> NoTime,
           rate_limit_requests |-> 0, rate_limit_window |-> 0]

NoKey == [key_id |-> "none", key_hash |-> <<>>, user_id |-> "none", scopes |-> {},
          is_active |-> FALSE, expires_at |-> NoTime, last_used |-> NoTime,
          total_requests |-> 0, rate_limit_requests |-> 0, rate_limit_window |-> 0]

NoToken == [sub |-> "", user_id |-> "", role |-> "", exp |-> NoTime, iat |-> NoTime,
            type |-> "", sig |-> "absent"]

\* the Credential Store operation that raises during a request, if any
DbFaults == {"none", "find_key", "update_key", "find_user"}

(***************************************************************************)
(* AuthService (services/auth_service.py)                                  *)
(***************************************************************************)
\* pwd_context.hash / pwd_context.verify (bcrypt)
get_password_hash(password) == <<"bcrypt", password>>

verify_password(plain_password, hashed_password) ==
    get_password_hash(plain_password) = hashed_password

\* hashlib.sha256(api_key).hexdigest(): a digest that determines its input
hash_api_key(api_key) == <<"sha256">> \o api_key

verify_api_key(api_key, hashed_key) == hash_api_key(api_key) = hashed_key

create_user_token_data(user) ==
    [sub |-> user.username, user_id |-> user.id, role |-> user.role]

\* the signed token: its claims and a signature made with the secret key
create_access_token(data, expires_delta, t) ==
    [sub |-> data.sub, user_id |-> data.user_id, role |-> data.role,
     exp |-> t + expires_delta, iat |-> t, type |-> "access", sig |-> "valid"]

\* jwt.decode that does not look at the exp claim
jwt_decode_ok_ignores_exp(token, t) == token.sig = "valid"

\* jwt.decode: the signature verifies and the exp claim is not in the past
jwt_decode_ok(token, t) == token.sig = "valid" /\ ~(token.exp < t)

\* verify_token without the check of the type claim
verify_token_of_any_type(token, t) ==
    IF ~jwt_decode_ok(token, t) \/ token.sub = ""
    THEN [ok |-> FALSE, username |-> "", user_id |-> "", role |-> ""]
    ELSE [ok |-> TRUE, username |-> token.sub, user_id |-> token.user_id,
          role |-> token.role]

\* AuthService.verify_token: ok = FALSE stands for the HTTPException(401)
verify_token(token, t) ==
    IF ~jwt_decode_ok(token, t) THEN [ok |-> FALSE, username |-> "", user_id |-> "", role |-> ""]
    ELSE IF token.sub = "" \/ token.type # "access"
         THEN [ok |-> FALSE, username |-> "", user_id |-> "", role |-> ""]
         ELSE [ok |-> TRUE, username |-> token.sub, user_id |-> token.user_id,
               role |-> token.role]

(***************************************************************************)
(* UserService lookups (services/user_service.py)                          *)
(***************************************************************************)
get_user_by_username(usrs, username) ==
    IF \E u \in DOMAIN usrs : usrs[u].username = username
    THEN usrs[CHOOSE u \in DOMAIN usrs : usrs[u].username = username]
    ELSE NoUser

(***************************************************************************)
(* APIKeyService (services/api_key_service.py)                             *)
(***************************************************************************)
\* find_one({"key_id": key_id}); key_id is the text before the colon
get_api_key_by_key_id(keys, key_id) ==
    IF \E k \in DOMAIN keys : <<k>> = key_id
    THEN keys[CHOOSE k \in DOMAIN keys : <<k>> = key_id]
    ELSE NoKey

update_last_used(keys, k, t) ==
    [keys EXCEPT ![k].last_used = t, ![k].total_requests = @ + 1]

\* authenticate_api_key without the is_active check
authenticate_api_key_skips_is_active(keys, key_id, raw_api_key, t, fault) ==
    LET api_key == get_api_key_by_key_id(keys, key_id)
        fail(r) == [result |-> r, api_key |-> NoKey, keys |-> keys]
    IN  IF fault = "find_key" THEN fail("raise")
        ELSE IF api_key = NoKey THEN fail("none")
        ELSE IF api_key.expires_at # NoTime /\ t > api_key.expires_at THEN fail("none")
        ELSE IF ~verify_api_key(raw_api_key, api_key.key_hash) THEN fail("none")
        ELSE IF fault = "update_key" THEN fail("raise")
        ELSE [result |-> "key", api_key |-> api_key,
              keys |-> update_last_used(keys, api_key.key_id, t)]

\* APIKeyService.authenticate_api_key: result "key" (the key is returned),
\* "none" (None is returned) or "raise"; keys is the collection it leaves
authenticate_api_key(keys, key_id, raw_api_key, t, fault) ==
    LET api_key == get_api_key_by_key_id(keys, key_id)
        fail(r) == [result |-> r, api_key |-> NoKey, keys |-> keys]
    IN  IF fault = "find_key" THEN fail("raise")
        ELSE IF api_key = NoKey THEN fail("none")
        ELSE IF ~api_key.is_active THEN fail("none")
        ELSE IF api_key.expires_at # NoTime /\ t > api_key.expires_at THEN fail("none")
        ELSE IF ~verify_api_key(raw_api_key, api_key.key_hash) THEN fail("none")
        ELSE IF fault = "update_key" THEN fail("raise")
        ELSE [result |-> "key", api_key |-> api_key,
              keys |-> update_last_used(keys, api_key.key_id, t)]

\* what the coroutine APIKeyService.has_scope yields when it is awaited
APIKeyService_has_scope(api_key, required_scope) ==
    IF "admin" \in api_key.scopes THEN TRUE
    ELSE required_scope \in api_key.scopes

(***************************************************************************)
(* AuthContext and get_auth_context (middleware/auth_middleware.py)        *)
(***************************************************************************)
AuthContext(user, api_key, auth_type) ==
    [user |-> user, api_key |-> api_key, auth_type |-> auth_type]

Anonymous == AuthContext(NoUser, NoKey, "none")

is_authenticated(ctx) == ctx.user # NoUser \/ ctx.api_key # NoKey

AuthContext_user_id(ctx) ==
    IF ctx.user # NoUser THEN ctx.user.id
    ELSE IF ctx.api_key # NoKey THEN ctx.api_key.user_id
    ELSE "none"

\* has_role without the admin shortcut
has_role_exact_match_only(ctx, required_role) ==
    IF ctx.user = NoUser THEN FALSE
    ELSE ctx.user.role = required_role

has_role(ctx, required_role) ==
    IF ctx.user = NoUser THEN FALSE
    ELSE IF ctx.user.role = "admin" THEN TRUE
    ELSE ctx.user.role = required_role

\* Python values a check can return: a bool, or the coroutine object that
\* calling an "async def" without await produces
PyBool(b) == [kind |-> "bool", val |-> b]
PyCoroutine(yields) == [kind |-> "coroutine", val |-> yields]

\* truth value of a Python object: a coroutine object is truthy
truthy(v) == IF v.kind = "bool" THEN v.val ELSE TRUE

\* has_scope that lets readonly write
AuthContext_has_scope_readonly_writes(ctx, required_scope) ==
    IF ctx.api_key # NoKey
    THEN PyCoroutine(APIKeyService_has_scope(ctx.api_key, required_scope))
    ELSE IF ctx.user # NoUser
         THEN IF ctx.user.role = "admin" THEN PyBool(TRUE)
              ELSE IF required_scope = "read" /\ ctx.user.role \in {"user", "readonly"}
                   THEN PyBool(TRUE)
              ELSE IF required_scope = "write" /\ ctx.user.role \in {"user", "readonly"}
                   THEN PyBool(TRUE)
              ELSE PyBool(FALSE)
         ELSE PyBool(FALSE)

\* AuthContext.has_scope: the Python value it returns
AuthContext_has_scope(ctx, required_scope) ==
    IF ctx.api_key # NoKey
    THEN PyCoroutine(APIKeyService_has_scope(ctx.api_key, required_scope))
    ELSE IF ctx.user # NoUser
         THEN IF ctx.user.role = "admin" THEN PyBool(TRUE)
              ELSE IF required_scope = "read" /\ ctx.user.role \in {"user", "readonly"}
                   THEN PyBool(TRUE)
              ELSE IF required_scope = "write" /\ ctx.user.role = "user"
                   THEN PyBool(TRUE)
              ELSE PyBool(FALSE)
         ELSE PyBool(FALSE)

\* the JWT branch trusting the token without the is_active check
jwt_auth_context_ignores_is_active(credentials, usrs, t, fault) ==
    IF credentials = NoToken THEN Anonymous
    ELSE LET token_data == verify_token(credentials, t)
             user == get_user_by_username(usrs, token_data.username)
         IN  IF ~token_data.ok THEN Anonymous
             ELSE IF fault = "find_user" THEN Anonymous
             ELSE IF user # NoUser
                  THEN AuthContext(user, NoKey, "jwt")
                  ELSE Anonymous

\* the JWT branch taking the role from the token's claims
jwt_auth_context_role_of_token(credentials, usrs, t, fault) ==
    IF credentials = NoToken THEN Anonymous
    ELSE LET token_data == verify_token(credentials, t)
             user == get_user_by_username(usrs, token_data.username)
         IN  IF ~token_data.ok THEN Anonymous
             ELSE IF fault = "find_user" THEN Anonymous
             ELSE IF user # NoUser /\ user.is_active
                  THEN AuthContext([user EXCEPT !.role = token_data.role], NoKey, "jwt")
                  ELSE Anonymous

\* the JWT branch of get_auth_context
jwt_auth_context(credentials, usrs, t, fault) ==
    IF credentials = NoToken THEN Anonymous
    ELSE LET token_data == verify_token(credentials, t)
             user == get_user_by_username(usrs, token_data.username)
         IN  IF ~token_data.ok THEN Anonymous
             ELSE IF fault = "find_user" THEN Anonymous
             ELSE IF user # NoUser /\ user.is_active
                  THEN AuthContext(user, NoKey, "jwt")
                  ELSE Anonymous

\* get_auth_context that does not try the bearer token once an API key
\* was supplied
get_auth_context_no_fallback(req, usrs, keys, t) ==
    LET api_key_auth == StrOr(req.api_key_header, req.api_key_query)
        parts == split_colon(api_key_auth)
        auth == authenticate_api_key(keys, parts[1], parts[2], t, req.fault)
    IN  IF api_key_auth # <<>>
        THEN IF HasColon(api_key_auth) /\ auth.result = "key"
             THEN [ctx |-> AuthContext(NoUser, auth.api_key, "api_key"), keys |-> auth.keys]
             ELSE [ctx |-> Anonymous, keys |-> keys]
        ELSE [ctx |-> jwt_auth_context(req.credentials, usrs, t, req.fault), keys |-> keys]

\* get_auth_context: the AuthContext and the api_keys collection it leaves
get_auth_context(req, usrs, keys, t) ==
    LET api_key_auth == StrOr(req.api_key_header, req.api_key_query)
        parts == split_colon(api_key_auth)
        auth == authenticate_api_key(keys, parts[1], parts[2], t, req.fault)
        by_jwt == [ctx |-> jwt_auth_context(req.credentials, usrs, t, req.fault),
                   keys |-> keys]
    IN  IF api_key_auth # <<>> /\ HasColon(api_key_auth)
        THEN IF auth.result = "key"
             THEN [ctx |-> AuthContext(NoUser, auth.api_key, "api_key"), keys |-> auth.keys]
             ELSE by_jwt
        ELSE by_jwt

(***************************************************************************)
(* Dependencies: 0 = the dependency passes, else the status it raises      *)
(***************************************************************************)
require_authentication(ctx) == IF ~is_authenticated(ctx) THEN 401 ELSE 0

\* role_checker that does not depend on require_authentication
role_checker_without_authentication(ctx, required_role) ==
    IF ~has_role(ctx, required_role) THEN 403 ELSE 0

role_checker(ctx, required_role) ==
    IF require_authentication(ctx) # 0 THEN require_authentication(ctx)
    ELSE IF ~has_role(ctx, required_role) THEN 403 ELSE 0

scope_checker(ctx, required_scope) ==
    IF require_authentication(ctx) # 0 THEN require_authentication(ctx)
    ELSE IF ~truthy(AuthContext_has_scope(ctx, required_scope)) THEN 403 ELSE 0

require_admin(ctx) == role_checker(ctx, "admin")
require_read_access(ctx) == scope_checker(ctx, "read")
require_write_access(ctx) == scope_checker(ctx, "write")

\* a fail-open result that reports no remaining quota
fail_open_info_nothing_remaining(t) ==
    RateLimitInfo(0, 0, t, FAIL_OPEN_LIMIT, FAIL_OPEN_WINDOW)

\* the RateLimitInfo returned when the check raised
fail_open_info(t) ==
    RateLimitInfo(0, FAIL_OPEN_LIMIT, t, FAIL_OPEN_LIMIT, FAIL_OPEN_WINDOW)

\* a check that counts every request against the window of the client IP
RateLimitMiddleware_check_rate_limit_by_ip(c, ctx, client_ip, endpoint, t, fault) ==
    LET r == check_ip_rate_limit(c, client_ip, endpoint, t, fault)
    IN  IF r.raised
        THEN [status |-> 0,
              info |-> fail_open_info(t),
              retry_after |-> 0,
              cache_key |-> _get_cache_key(<<"ip", client_ip>>, endpoint),
              cache |-> r.cache]
        ELSE [status |-> IF is_rate_limited(r.info) THEN 429 ELSE 0,
              info |-> r.info,
              retry_after |-> r.info.reset_time - t,
              cache_key |-> _get_cache_key(<<"ip", client_ip>>, endpoint),
              cache |-> r.cache]

\* RateLimitMiddleware.check_rate_limit: status 429 when it raises
\* HTTPException, 0 when it returns a RateLimitInfo
RateLimitMiddleware_check_rate_limit(c, ctx, client_ip, endpoint, t, fault) ==
    LET r == IF ctx.user # NoUser
             THEN check_user_rate_limit(c, ctx.user, endpoint, t, fault)
             ELSE IF ctx.api_key # NoKey
                  THEN check_api_key_rate_limit(c, ctx.api_key, endpoint, t, fault)
             ELSE check_ip_rate_limit(c, client_ip, endpoint, t, fault)
        identifier == IF ctx.user # NoUser THEN <<"user", ctx.user.id>>
                      ELSE IF ctx.api_key # NoKey THEN <<"api_key", ctx.api_key.key_id>>
                      ELSE <<"ip", client_ip>>
    IN  IF r.raised
        THEN [status |-> 0,
              info |-> fail_open_info(t),
              retry_after |-> 0,
              cache_key |-> _get_cache_key(identifier, endpoint),
              cache |-> r.cache]
        ELSE [status |-> IF is_rate_limited(r.info) THEN 429 ELSE 0,
              info |-> r.info,
              retry_after |-> r.info.reset_time - t,
              cache_key |-> _get_cache_key(identifier, endpoint),
              cache |-> r.cache]

(***************************************************************************)
(* Routes: the endpoint string of the rate-limit key and the dependencies  *)
(* declared by the handler, in declaration order (authorization first,     *)
(* then check_rate_limit)                                                  *)
(***************************************************************************)
Route(endpoint, dep) == [endpoint |-> endpoint, dep |-> dep]

Route_get_daily_prices == Route("GET /api/stocks/AAPL/daily", "require_read_access")
Route_create_daily_price == Route("POST /api/stocks/AAPL/daily", "require_write_access")
Route_get_current_user == Route("GET /api/auth/me", "require_authentication")
Route_login_user == Route("POST /api/auth/login", "none")
Route_revoke_api_key == Route("DELETE /api/auth/api-keys/{key_id}", "require_authentication")
Route_update_user == Route("PUT /api/users/{user_id}", "require_admin")
Route_delete_user == Route("DELETE /api/users/{user_id}", "require_admin")
Route_activate_user == Route("POST /api/users/{user_id}/activate", "require_admin")
Route_deactivate_user == Route("POST /api/users/{user_id}/deactivate", "require_admin")

\* the status raised by the authorization dependency of a route, 0 if none
auth_dependency(dep, ctx) ==
    IF dep = "require_authentication" THEN require_authentication(ctx)
    ELSE IF dep = "require_admin" THEN require_admin(ctx)
    ELSE IF dep = "require_read_access" THEN require_read_access(ctx)
    ELSE IF dep = "require_write_access" THEN require_write_access(ctx)
    ELSE 0

NoInfo == RateLimitInfo(0, 0, 0, 0, 0)

\* dependency resolution of one request on the current state: the identity,
\* the authorization dependency, then (if that passed) the quota check
Pipeline(req, route) ==
    LET a == get_auth_context(req, users, api_keys, now)
        d == auth_dependency(route.dep, a.ctx)
        rl == RateLimitMiddleware_check_rate_limit(_cache, a.ctx, req.client_ip,
                                                   route.endpoint, now, req.fault)
    IN  [ctx |-> a.ctx,
         keys |-> a.keys,
         checked |-> (d = 0),
         cache_key |-> IF d = 0 THEN rl.cache_key ELSE <<>>,
         info |-> IF d = 0 THEN rl.info ELSE NoInfo,
         retry_after |-> IF d = 0 /\ rl.status = 429 THEN rl.retry_after ELSE 0,
         cache |-> IF d = 0 THEN rl.cache ELSE _cache,
         status |-> IF d # 0 THEN d ELSE rl.status]

(***************************************************************************)
(* History of the quota keys (not program state): per cache key the time   *)
(* of the first and of the latest checked request, the number of checked   *)
(* requests and the number of them that were not answered 429              *)
(***************************************************************************)
NoHist == [first |-> NoTime, last |-> NoTime, count |-> 0, admitted |-> 0]

HistOf(h, key) == IF key \in DOMAIN h THEN h[key] ELSE NoHist

HistAfter(h, key, status, t) ==
    LET old == HistOf(h, key)
        new == [first |-> IF old.count = 0 THEN t ELSE old.first,
                last |-> t,
                count |-> old.count + 1,
                admitted |-> old.admitted + (IF status = 429 THEN 0 ELSE 1)]
    IN  [k \in DOMAIN h \cup {key} |-> IF k = key THEN new ELSE h[k]]

\* timestamps of a cache key that lie inside the trailing window at time t
Occupancy(c, key, window, t) ==
    IF key \in DOMAIN c /\ ~_is_expired(c[key], t)
    THEN recent_of(c[key].data.requests, t - window)
    ELSE <<>>

StoredRequests(c, key) == IF key \in DOMAIN c THEN c[key].data.requests ELSE <<>>

NoResp == [handler |-> "none", req |-> [fault |-> "none", credentials |-> NoToken,
                                         api_key_header |-> <<>>, api_key_query |-> <<>>,
                                         client_ip |-> ""],
           at |-> NoTime, status |-> 0, ctx |-> Anonymous, checked |-> FALSE,
           cache_key |-> <<>>, info |-> NoInfo, retry_after |-> 0,
           pre_requests |-> <<>>, pre_occupancy |-> 0, post_requests |-> <<>>,
           prev |-> NoHist, seq |-> 0, admitted |-> 0]

\* the response record of a request: p is its Pipeline, status the final status
Response(handler, req, p, status) ==
    [handler |-> handler, req |-> req, at |-> now, status |-> status, ctx |-> p.ctx,
     checked |-> p.checked, cache_key |-> p.cache_key, info |-> p.info,
     retry_after |-> p.retry_after,
     pre_requests |-> StoredRequests(_cache, p.cache_key),
     pre_occupancy |-> Len(Occupancy(_cache, p.cache_key, p.info.window, now)),
     post_requests |-> StoredRequests(p.cache, p.cache_key),
     prev |-> HistOf(hist, p.cache_key),
     seq |-> IF p.checked THEN HistOf(hist, p.cache_key).count + 1 ELSE 0,
     admitted |-> IF p.checked
                  THEN HistOf(hist, p.cache_key).admitted + (IF p.status = 429 THEN 0 ELSE 1)
                  ELSE 0]

\* what every request does to the quota store and to the bookkeeping
Served(handler, req, p, status) ==
    /\ served < MaxRequests
    /\ served' = served + 1
    /\ _cache' = p.cache
    /\ hist' = IF p.checked THEN HistAfter(hist, p.cache_key, p.status, now) ELSE hist
    /\ resp' = Response(handler, req, p, status)
    /\ UNCHANGED inflight

(***************************************************************************)
(* Initial state: two registered users who have both logged in at time 0,  *)
(* and two API keys                                                        *)
(***************************************************************************)
UserDoc(id, username, role, password, limit) ==
    [id |-> id, username |-> username, email |-> <<username, "example.com">>,
     role |-> role, is_active |-> TRUE,
     is_verified |-> FALSE, hashed_password |-> get_password_hash(password),
     last_login |-> 0, rate_limit_requests |-> limit,
     rate_limit_window |-> rate_limit_window_default]

KeyDoc(key_id, raw_api_key, user_id, scopes, expires_at, limit) ==
    [key_id |-> key_id, key_hash |-> hash_api_key(raw_api_key), user_id |-> user_id,
     scopes |-> scopes, is_active |-> TRUE, expires_at |-> expires_at,
     last_used |-> NoTime, total_requests |-> 0, rate_limit_requests |-> limit,
     rate_limit_window |-> rate_limit_window_default]

InitUsers == [u \in {"u1", "u2"} |->
                 IF u = "u1" THEN UserDoc("u1", "alice", "admin", "pwA", 2)
                 ELSE UserDoc("u2", "bob", "user", "pwB", 2)]

InitKeys == [k \in {"k1", "k2"} |->
                IF k = "k1" THEN KeyDoc("k1", <<"s1">>, "u2", {"read"}, NoTime, 1)
                ELSE KeyDoc("k2", <<"s2">>, "u1", {"admin"}, Step, 2)]

TokenTTL == jwt_access_token_expire_minutes * 60

TokenOf(user, t) == create_access_token(create_user_token_data(user), TokenTTL, t)

Init ==
    /\ users = InitUsers
    /\ api_keys = InitKeys
    /\ _cache = <<>>
    /\ issued = {TokenOf(InitUsers[u], 0) : u \in {"u1", "u2"}}
    /\ now = 0
    /\ served = 0
    /\ hist = <<>>
    /\ resp = NoResp
    /\ inflight = {}

(***************************************************************************)
(* The clock                                                               *)
(***************************************************************************)
TickCoarse ==
    /\ now + Step <= MaxTime
    /\ now' = (now \div Step) * Step + Step
    /\ UNCHANGED <<users, api_keys, _cache, issued, served, hist, resp, inflight>>

TickFine ==
    /\ now % Step < MaxFine
    /\ now + 1 <= MaxTime
    /\ now' = now + 1
    /\ UNCHANGED <<users, api_keys, _cache, issued, served, hist, resp, inflight>>

(***************************************************************************)
(* Handlers.  A handler whose body is market-data plumbing answers 200     *)
(* once its dependencies have passed.                                      *)
(***************************************************************************)
\* GET /api/stocks/{symbol}/daily
get_daily_prices(req) ==
    \E p \in {Pipeline(req, Route_get_daily_prices)} :
    /\ Served("get_daily_prices", req, p, IF p.status = 0 THEN 200 ELSE p.status)
    /\ api_keys' = p.keys
    /\ UNCHANGED <<users, issued, now>>

\* POST /api/stocks/{symbol}/daily
create_daily_price(req) ==
    \E p \in {Pipeline(req, Route_create_daily_price)} :
    /\ Served("create_daily_price", req, p, IF p.status = 0 THEN 200 ELSE p.status)
    /\ api_keys' = p.keys
    /\ UNCHANGED <<users, issued, now>>

\* GET /api/auth/me
get_current_user(req) ==
    \E p \in {Pipeline(req, Route_get_current_user)} :
    LET status == IF p.status # 0 THEN p.status
                  ELSE IF p.ctx.user = NoUser THEN 401 ELSE 200
    IN
    /\ Served("get_current_user", req, p, status)
    /\ api_keys' = p.keys
    /\ UNCHANGED <<users, issued, now>>

\* UserService.authenticate_user: "user", "none" (None) or "disabled" (401)
authenticate_user(usrs, username, password) ==
    LET user == get_user_by_username(usrs, username) IN
    IF user = NoUser THEN "none"
    ELSE IF ~user.is_active THEN "disabled"
    ELSE IF ~verify_password(password, user.hashed_password) THEN "none"
    ELSE "user"

update_last_login(usrs, user_id, t) == [usrs EXCEPT ![user_id].last_login = t]

\* POST /api/auth/login
login_user(req, username, password) ==
    \E p \in {Pipeline(req, Route_login_user)} :
    LET outcome == authenticate_user(users, username, password)
        user == get_user_by_username(users, username)
        granted == p.status = 0 /\ req.fault # "find_user" /\ outcome = "user"
        status == IF p.status # 0 THEN p.status
                  ELSE IF req.fault = "find_user" THEN 500
                  ELSE IF outcome = "user" THEN 200 ELSE 401
    IN
    /\ granted => (TokenOf(user, now) \in issued \/ Cardinality(issued) < MaxTokens)
    /\ Served("login_user", req, p, status)
    /\ api_keys' = p.keys
    /\ users' = IF granted THEN update_last_login(users, user.id, now) ELSE users
    /\ issued' = IF granted THEN issued \cup {TokenOf(user, now)} ELSE issued
    /\ UNCHANGED now

\* a revocation that does not match on the owner
APIKeyService_revoke_api_key_of_any_owner(keys, user_id, key_id) ==
    IF key_id \in DOMAIN keys
    THEN [keys EXCEPT ![key_id].is_active = FALSE]
    ELSE keys

\* APIKeyService.revoke_api_key: the collection it leaves; it returns TRUE
\* exactly when the collection changed (modified_count)
APIKeyService_revoke_api_key(keys, user_id, key_id) ==
    IF key_id \in DOMAIN keys /\ keys[key_id].user_id = user_id
    THEN [keys EXCEPT ![key_id].is_active = FALSE]
    ELSE keys

\* the request together with the key_id of its path
WithPath(req, key_id) ==
    [f \in DOMAIN req \cup {"key_id"} |-> IF f = "key_id" THEN key_id ELSE req[f]]

\* DELETE /api/auth/api-keys/{key_id}
revoke_api_key(req, key_id) ==
    \E p \in {Pipeline(req, Route_revoke_api_key)} :
    LET runs == p.status = 0 /\ p.ctx.user # NoUser
        after == APIKeyService_revoke_api_key(p.keys, p.ctx.user.id, key_id)
        status == IF p.status # 0 THEN p.status
                  ELSE IF p.ctx.user = NoUser THEN 401
                  ELSE IF after # p.keys THEN 200 ELSE 404
    IN
    /\ Served("revoke_api_key", WithPath(req, key_id), p, status)
    /\ api_keys' = IF runs THEN after ELSE p.keys
    /\ UNCHANGED <<users, issued, now>>

\* UserService.update_user with the fields of upd that are set (not "none")
UserService_update_user(usrs, user_id, upd) ==
    IF user_id \in DOMAIN usrs
    THEN [usrs EXCEPT ![user_id] =
            [@ EXCEPT !.role = IF upd.role # "none" THEN upd.role ELSE @,
                      !.is_active = IF upd.is_active # "none" THEN upd.is_active = "true" ELSE @]]
    ELSE usrs

UserUpdate(role, is_active) == [role |-> role, is_active |-> is_active]

\* UserService.delete_user (logical deletion)
UserService_delete_user(usrs, user_id) ==
    IF user_id \in DOMAIN usrs
    THEN [usrs EXCEPT ![user_id].is_active = FALSE]
    ELSE usrs

\* PUT /api/users/{user_id}
update_user(req, user_id, upd) ==
    \E p \in {Pipeline(req, Route_update_user)} :
    LET empty == upd.role = "none" /\ upd.is_active = "none"
        status == IF p.status # 0 THEN p.status
                  ELSE IF user_id \in DOMAIN users /\ ~empty THEN 200 ELSE 404
    IN
    /\ Served("update_user", req, p, status)
    /\ api_keys' = p.keys
    /\ users' = IF p.status = 0 THEN UserService_update_user(users, user_id, upd) ELSE users
    /\ UNCHANGED <<issued, now>>

\* DELETE /api/users/{user_id}
delete_user(req, user_id) ==
    \E p \in {Pipeline(req, Route_delete_user)} :
    LET self == AuthContext_user_id(p.ctx) = user_id
        status == IF p.status # 0 THEN p.status
                  ELSE IF self THEN 400
                  ELSE IF user_id \in DOMAIN users THEN 200 ELSE 404
    IN
    /\ Served("delete_user", req, p, status)
    /\ api_keys' = p.keys
    /\ users' = IF p.status = 0 /\ ~self THEN UserService_delete_user(users, user_id) ELSE users
    /\ UNCHANGED <<issued, now>>

\* POST /api/users/{user_id}/activate
activate_user(req, user_id) ==
    \E p \in {Pipeline(req, Route_activate_user)} :
    LET status == IF p.status # 0 THEN p.status
                  ELSE IF user_id \in DOMAIN users THEN 200 ELSE 404
    IN
    /\ Served("activate_user", req, p, status)
    /\ api_keys' = p.keys
    /\ users' = IF p.status = 0
                THEN UserService_update_user(users, user_id, UserUpdate("none", "true"))
                ELSE users
    /\ UNCHANGED <<issued, now>>

\* POST /api/users/{user_id}/deactivate
deactivate_user(req, user_id) ==
    \E p \in {Pipeline(req, Route_deactivate_user)} :
    LET self == AuthContext_user_id(p.ctx) = user_id
        status == IF p.status # 0 THEN p.status
                  ELSE IF self THEN 400
                  ELSE IF user_id \in DOMAIN users THEN 200 ELSE 404
    IN
    /\ Served("deactivate_user", req, p, status)
    /\ api_keys' = p.keys
    /\ users' = IF p.status = 0 /\ ~self
                THEN UserService_update_user(users, user_id, UserUpdate("none", "false"))
                ELSE users
    /\ UNCHANGED <<issued, now>>

(***************************************************************************)
(* Passwords: strings of characters; str.isupper, str.islower, str.isdigit *)
(* on the characters used here, and the special characters of              *)
(* validate_password_strength                                              *)
(***************************************************************************)
isupper(c) == c \in {"A", "B", "C", "D", "E", "F"}
islower(c) == c \in {"a", "b", "c", "d", "e", "f", "g", "h", "p", "w"}
isdigit(c) == c \in {"1", "2", "3", "4", "5"}

SPECIAL_CHARS ==
    {"!", "@", "#", "$", "%", "^", "&", "*", "(", ")", "_", "+", "-", "=", "[", "]",
     "{", "}", "|", ";", ":", ",", ".", "<", ">", "?"}

\* the characters of the password strings that the model uses
chars(password) ==
    CASE password = "Abc12345" -> <<"A", "b", "c", "1", "2", "3", "4", "5">>
      [] password = "abc" -> <<"a", "b", "c">>
      [] password = "abcdefgh" -> <<"a", "b", "c", "d", "e", "f", "g", "h">>
      [] password = "abcdefg1" -> <<"a", "b", "c", "d", "e", "f", "g", "1">>
      [] password = "abcdef1!" -> <<"a", "b", "c", "d", "e", "f", "1", "!">>
      [] password = "ABCDEF1!" -> <<"A", "B", "C", "D", "E", "F", "1", "!">>
      [] password = "Abcdef1!" -> <<"A", "b", "c", "d", "e", "f", "1", "!">>
      [] password = "Abc1234" -> <<"A", "b", "c", "1", "2", "3", "4">>
      [] password = "Ab1!" -> <<"A", "b", "1", "!">>
      [] password = "Abcdefg~" -> <<"A", "b", "c", "d", "e", "f", "g", "~">>
      [] password = "pwA" -> <<"p", "w", "A">>
      [] password = "pwB" -> <<"p", "w", "B">>
      [] password = "bad" -> <<"b", "a", "d">>

\* int(True) = 1
PyInt(b) == IF b THEN 1 ELSE 0

\* validate_password_strength that asks for all four kinds of character
validate_password_strength_needs_all_four(password) ==
    IF Len(chars(password)) < 8 THEN FALSE
    ELSE LET has_upper == \E i \in 1..Len(chars(password)) : isupper(chars(password)[i])
             has_lower == \E i \in 1..Len(chars(password)) : islower(chars(password)[i])
             has_digit == \E i \in 1..Len(chars(password)) : isdigit(chars(password)[i])
             has_special == \E i \in 1..Len(chars(password)) :
                                chars(password)[i] \in SPECIAL_CHARS
             conditions_met == PyInt(has_upper) + PyInt(has_lower) + PyInt(has_digit)
                                 + PyInt(has_special)
         IN  conditions_met >= 4

\* AuthService.validate_password_strength
validate_password_strength(password) ==
    IF Len(chars(password)) < 8 THEN FALSE
    ELSE LET has_upper == \E i \in 1..Len(chars(password)) : isupper(chars(password)[i])
             has_lower == \E i \in 1..Len(chars(password)) : islower(chars(password)[i])
             has_digit == \E i \in 1..Len(chars(password)) : isdigit(chars(password)[i])
             has_special == \E i \in 1..Len(chars(password)) :
                                chars(password)[i] \in SPECIAL_CHARS
             conditions_met == PyInt(has_upper) + PyInt(has_lower) + PyInt(has_digit)
                                 + PyInt(has_special)
         IN  conditions_met >= 3

\* the request bodies: pydantic checks Field(min_length=8) on the password
\* before the handler is called
UserCreate(username, email, password, role) ==
    [username |-> username, email |-> email, password |-> password, role |-> role]

ChangePasswordRequest(current_password, new_password) ==
    [current_password |-> current_password, new_password |-> new_password]

\* UserService.create_user up to its insert_one: the find_one that looks
\* for a user with the same username or e-mail, then the password check;
\* the status it raises, 0 when it goes on to insert
create_user_check(usrs, user_data) ==
    IF \E u \in DOMAIN usrs : \/ usrs[u].username = user_data.username
                              \/ usrs[u].email = user_data.email
    THEN 400
    ELSE IF ~validate_password_strength(user_data.password) THEN 400
    ELSE 0

\* UserService.create_user from its insert_one on: the collection with the
\* new document
create_user_insert(usrs, new_id, user_data) ==
    [u \in DOMAIN usrs \cup {new_id} |->
        IF u = new_id
        THEN [id |-> new_id, username |-> user_data.username,
              email |-> user_data.email,
              role |-> user_data.role, is_active |-> TRUE,
              is_verified |-> FALSE,
              hashed_password |-> get_password_hash(user_data.password),
              last_login |-> NoTime,
              rate_limit_requests |-> rate_limit_requests_default,
              rate_limit_window |-> rate_limit_window_default]
        ELSE usrs[u]]

\* UserService.create_user when nothing else runs between its awaits: the
\* status it raises (0 when it returns the user) and the collection it leaves
UserService_create_user(usrs, new_id, user_data) ==
    IF create_user_check(usrs, user_data) # 0
    THEN [status |-> 400, users |-> usrs]
    ELSE [status |-> 0, users |-> create_user_insert(usrs, new_id, user_data)]

\* UserService.change_password: the status it raises (0 when it returns
\* True) and the collection it leaves
UserService_change_password(usrs, user_id, current_password, new_password) ==
    IF user_id \notin DOMAIN usrs THEN [status |-> 404, users |-> usrs]
    ELSE IF ~verify_password(current_password, usrs[user_id].hashed_password)
    THEN [status |-> 400, users |-> usrs]
    ELSE IF ~validate_password_strength(new_password)
    THEN [status |-> 400, users |-> usrs]
    ELSE [status |-> 0,
          users |-> [usrs EXCEPT ![user_id].hashed_password =
                                     get_password_hash(new_password)]]

\* the request together with its JSON body
WithBody(req, body) ==
    [f \in DOMAIN req \cup {"body"} |-> IF f = "body" THEN body ELSE req[f]]

Route_register_user == Route("POST /api/auth/register", "none")
Route_change_password == Route("POST /api/auth/change-password", "require_authentication")

\* POST /api/auth/register: the dependencies, the validation of the body
\* (422), then the handler
register_user(req, new_id, user_data) ==
    \E p \in {Pipeline(req, Route_register_user)} :
    LET valid == Len(chars(user_data.password)) >= password_min_length
        r == UserService_create_user(users, new_id, user_data)
        status == IF p.status # 0 THEN p.status
                  ELSE IF ~valid THEN 422
                  ELSE IF r.status # 0 THEN r.status ELSE 200
    IN
    /\ new_id \notin DOMAIN users
    /\ Served("register_user", WithBody(req, user_data), p, status)
    /\ api_keys' = p.keys
    /\ users' = IF p.status = 0 /\ valid THEN r.users ELSE users
    /\ UNCHANGED <<issued, now>>

\* POST /api/auth/change-password
change_password(req, body) ==
    \E p \in {Pipeline(req, Route_change_password)} :
    LET valid == Len(chars(body.new_password)) >= password_min_length
        runs == p.status = 0 /\ valid /\ p.ctx.user # NoUser
        r == UserService_change_password(users, p.ctx.user.id, body.current_password,
                                         body.new_password)
        status == IF p.status # 0 THEN p.status
                  ELSE IF ~valid THEN 422
                  ELSE IF p.ctx.user = NoUser THEN 401
                  ELSE IF r.status # 0 THEN r.status ELSE 200
    IN
    /\ Served("change_password", WithBody(req, body), p, status)
    /\ api_keys' = p.keys
    /\ users' = IF runs THEN r.users ELSE users
    /\ UNCHANGED <<issued, now>>

\* what a route that declares no dependency resolves before its handler:
\* neither get_auth_context nor check_rate_limit runs
NoDependencies ==
    [ctx |-> Anonymous, keys |-> api_keys, checked |-> FALSE, cache_key |-> <<>>,
     info |-> NoInfo, retry_after |-> 0, cache |-> _cache, status |-> 0]

\* PUT /api/stocks/{symbol}/daily/{date}
update_daily_price(req) ==
    /\ Served("update_daily_price", req, NoDependencies, 200)
    /\ UNCHANGED <<users, api_keys, issued, now>>

\* POST /api/admin/cache/clear
clear_cache(req, prefix) ==
    /\ Served("clear_cache", req,
              [ctx |-> Anonymous, keys |-> api_keys, checked |-> FALSE,
               cache_key |-> <<>>, info |-> NoInfo, retry_after |-> 0,
               cache |-> cache_clear(_cache, prefix), status |-> 0], 200)
    /\ UNCHANGED <<users, api_keys, issued, now>>

(***************************************************************************)
(* Requests                                                                *)
(***************************************************************************)
\* (the fields are listed in the order in which TLC keeps them)
Req(api_key_header, api_key_query, credentials, fault) ==
    [fault |-> fault, credentials |-> credentials,
     api_key_header |-> api_key_header, api_key_query |-> api_key_query,
     client_ip |-> "ip1"]

Key1 == <<"k1", ":", "s1">>
Key2 == <<"k2", ":", "s2">>

\* tokens that were not issued by this service: a bad signature, and a
\* signed token of another type
ForgedTokens ==
    {[sub |-> "alice", user_id |-> "u1", role |-> "admin", exp |-> MaxTime + 1,
      iat |-> 0, type |-> "access", sig |-> "invalid"],
     [sub |-> "bob", user_id |-> "u2", role |-> "user", exp |-> MaxTime + 1,
      iat |-> 0, type |-> "refresh", sig |-> "valid"]}

(***************************************************************************)
(* SpecQuota: well-formed credentials on rate-limited routes               *)
(***************************************************************************)
QuotaReqs ==
    {Req(<<>>, <<>>, tok, "none") : tok \in issued \cup {NoToken}}
    \cup {Req(Key1, <<>>, NoToken, "none")}

QuotaGet == \E req \in QuotaReqs : get_daily_prices(req)

QuotaPost == \E req \in QuotaReqs : create_daily_price(req)

QuotaLogin ==
    \E password \in {"pwA", "bad"} :
        login_user(Req(<<>>, <<>>, NoToken, "none"), "alice", password)

NextQuota == TickCoarse \/ TickFine \/ QuotaGet \/ QuotaPost \/ QuotaLogin

SpecQuota == Init /\ [][NextQuota]_vars

(***************************************************************************)
(* SpecAuth: every combination of credentials and Credential Store faults  *)
(* on a protected route, with account and key administration               *)
(***************************************************************************)
ApiKeyStrings ==
    {<<>>, Key1, Key2, <<"k1", ":", "bad">>, <<"k9", ":", "s1">>}

\* the header with no query parameter, and a query parameter behind an
\* absent or a malformed header
ApiKeyInputs ==
    {<<h, <<>>>> : h \in ApiKeyStrings} \cup {<<h, Key1>> : h \in {<<>>, <<"k1">>}}

\* the faults that an operation of the request can meet: the key lookup
\* when a key id is presented, the usage update when the key passes every
\* check, the user lookup when a token of this service is presented
FaultsFor(k, tok) ==
    {"none"}
    \cup (IF k[1] = Key1 THEN {"find_key"} ELSE {})
    \cup (IF StrOr(k[1], k[2]) \in {Key1, Key2} THEN {"update_key"} ELSE {})
    \cup (IF tok \in issued THEN {"find_user"} ELSE {})

BadSignature == CHOOSE tok \in ForgedTokens : tok.sig = "invalid"

\* the bearer tokens of the requests: the tokens of bob (whose account the
\* administration below deletes and activates), a forged one, and none
AuthTokens == {tok \in issued : tok.sub = "bob"} \cup {BadSignature, NoToken}

AuthReqs ==
    UNION {{Req(k[1], k[2], tok, f) : f \in FaultsFor(k, tok)} :
              k \in ApiKeyInputs, tok \in AuthTokens}

\* requests of a logged-in user
TokenReqs == {Req(<<>>, <<>>, tok, "none") : tok \in issued}

AuthMe == served < MaxAuthRequests /\ \E req \in AuthReqs : get_current_user(req)

AuthRevoke == served < MaxAuthRequests /\ \E req \in TokenReqs : revoke_api_key(req, "k1")

AuthDelete == served < MaxAuthRequests /\ \E req \in TokenReqs : delete_user(req, "u2")

AuthActivate == served < MaxAuthRequests /\ \E req \in TokenReqs : activate_user(req, "u2")

NextAuth ==
    \/ TickCoarse \/ TickFine
    \/ AuthMe \/ AuthRevoke \/ AuthDelete \/ AuthActivate

SpecAuth == Init /\ [][NextAuth]_vars

(***************************************************************************)
(* SpecAuthz: the identities of every kind on the routes that require a    *)
(* scope or a role, with role changes                                      *)
(***************************************************************************)
AuthzReqs ==
    {Req(<<>>, <<>>, tok, "none") : tok \in issued \cup {NoToken}}
    \cup {Req(h, <<>>, NoToken, "none") : h \in {Key1, Key2}}

AuthzRead == served < MaxAuthRequests /\ \E req \in AuthzReqs : get_daily_prices(req)

AuthzWrite == served < MaxAuthRequests /\ \E req \in AuthzReqs : create_daily_price(req)

AuthzUpdate ==
    /\ served < MaxAuthRequests
    /\ \E req \in AuthzReqs, user_id \in {"u1", "u2"}, role \in UserRole :
           update_user(req, user_id, UserUpdate(role, "none"))

AuthzMe == served < MaxAuthRequests /\ \E req \in AuthzReqs : get_current_user(req)

AuthzPut == served < MaxAuthRequests /\ \E req \in AuthzReqs : update_daily_price(req)

NextAuthz ==
    TickCoarse \/ TickFine \/ AuthzRead \/ AuthzWrite \/ AuthzUpdate \/ AuthzMe
        \/ AuthzPut

SpecAuthz == Init /\ [][NextAuthz]_vars

(***************************************************************************)
(* SpecStore: every kind of identity on a protected route, on /me and on   *)
(* the login route, with quota store faults                                *)
(***************************************************************************)
StoreReqs ==
    {Req(<<>>, <<>>, tok, f) : tok \in issued, f \in {"none"} \cup CacheFaults}
    \cup {Req(Key1, <<>>, NoToken, f) : f \in {"none"} \cup CacheFaults}

StoreRead == served < MaxAuthRequests /\ \E req \in StoreReqs : get_daily_prices(req)

StoreMe == served < MaxAuthRequests /\ \E req \in StoreReqs : get_current_user(req)

StoreLogin ==
    /\ served < MaxAuthRequests
    /\ \E f \in {"none"} \cup CacheFaults, password \in {"pwA", "bad"} :
          login_user(Req(<<>>, <<>>, NoToken, f), "alice", password)

NextStore == TickCoarse \/ TickFine \/ StoreRead \/ StoreMe \/ StoreLogin

SpecStore == Init /\ [][NextStore]_vars

(***************************************************************************)
(* SpecProbe: requests with one credential of every failing kind on the    *)
(* protected routes, with key revocation and account deletion              *)
(***************************************************************************)
\* a signed access token whose user is not in the collection
UnknownUserToken ==
    [sub |-> "mallory", user_id |-> "u9", role |-> "admin", exp |-> MaxTime + 1,
     iat |-> 0, type |-> "access", sig |-> "valid"]

ProbeReqs ==
    {Req(h, <<>>, NoToken, "none") : h \in ApiKeyStrings}
    \cup {Req(<<>>, <<>>, tok, "none") :
             tok \in issued \cup ForgedTokens \cup {UnknownUserToken}}
    \cup {Req(<<"k1", ":", "bad">>, <<>>, BadSignature, "none")}

ProbeMe == served < MaxAuthRequests /\ \E req \in ProbeReqs : get_current_user(req)

ProbeRead == served < MaxAuthRequests /\ \E req \in ProbeReqs : get_daily_prices(req)

NextProbe ==
    \/ TickCoarse \/ TickFine
    \/ ProbeMe \/ ProbeRead \/ AuthRevoke \/ AuthDelete

SpecProbe == Init /\ [][NextProbe]_vars

(***************************************************************************)
(* SpecPassword: registration and password change with passwords of every *)
(* length and mix of characters                                            *)
(***************************************************************************)
Passwords ==
    {"Abc12345", "abc", "abcdefgh", "abcdefg1", "abcdef1!", "ABCDEF1!", "Abcdef1!",
     "Abc1234", "Ab1!", "Abcdefg~"}

PasswordRegister ==
    /\ served < MaxAuthRequests
    /\ \E username \in {"carol", "bob"}, password \in Passwords :
          register_user(Req(<<>>, <<>>, NoToken, "none"), "u3",
                        UserCreate(username, <<username, "example.com">>, password,
                                   "user"))

PasswordChange ==
    /\ served < MaxAuthRequests
    /\ \E req \in TokenReqs \cup {Req(Key1, <<>>, NoToken, "none")},
          current_password \in {"pwB", "bad"}, new_password \in Passwords :
          change_password(req, ChangePasswordRequest(current_password, new_password))

NextPassword == TickCoarse \/ PasswordRegister \/ PasswordChange

SpecPassword == Init /\ [][NextPassword]_vars

(***************************************************************************)
(* SpecRegister: registrations served concurrently by one event loop.      *)
(* create_user awaits find_one and later awaits insert_one; another        *)
(* request can run between the two.  inflight holds the calls that have    *)
(* passed the checks and have not inserted yet.                            *)
(***************************************************************************)
NewIds == {"u3", "u4"}

RegisterReqs ==
    {[Req(<<>>, <<>>, NoToken, "none") EXCEPT !.client_ip = ip] : ip \in {"ip1", "ip2"}}

RegisterBodies ==
    {UserCreate(username, <<mailbox, "example.com">>, password, "user") :
        username \in {"carol", "dave"}, mailbox \in {"carol", "dave", "bob"},
        password \in {"Abc12345", "abcdefgh"}}

\* POST /api/auth/register up to the insert_one of create_user: the
\* dependencies, the validation of the body, find_one and the password
\* check.  The request is answered here when one of them fails, and is
\* suspended in insert_one otherwise.
RegisterCall ==
    \E req \in RegisterReqs, user_data \in RegisterBodies,
       new_id \in NewIds \ (DOMAIN users \cup {c.id : c \in inflight}) :
    \E p \in {Pipeline(req, Route_register_user)} :
    LET valid == Len(chars(user_data.password)) >= password_min_length
        checked == create_user_check(users, user_data)
        status == IF p.status # 0 THEN p.status
                  ELSE IF ~valid THEN 422
                  ELSE IF checked # 0 THEN checked ELSE 200
    IN
    /\ served + Cardinality(inflight) < MaxAuthRequests
    /\ IF status # 200
       THEN Served("register_user", WithBody(req, user_data), p, status)
       ELSE /\ inflight' = inflight \cup
                   {[id |-> new_id, user_data |-> user_data,
                     resp |-> Response("register_user", WithBody(req, user_data),
                                       p, 200)]}
            /\ _cache' = p.cache
            /\ hist' = IF p.checked THEN HistAfter(hist, p.cache_key, p.status, now)
                       ELSE hist
            /\ UNCHANGED <<served, resp>>
    /\ api_keys' = p.keys
    /\ UNCHANGED <<users, issued, now>>

\* insert_one of a suspended create_user completes and the request is
\* answered with the new user
RegisterInsert ==
    \E c \in inflight :
    /\ users' = create_user_insert(users, c.id, c.user_data)
    /\ inflight' = inflight \ {c}
    /\ served' = served + 1
    /\ resp' = c.resp
    /\ UNCHANGED <<api_keys, _cache, issued, now, hist>>

NextRegister == TickCoarse \/ RegisterCall \/ RegisterInsert

SpecRegister == Init /\ [][NextRegister]_vars

(***************************************************************************)
(* SpecConcurrent: requests for the daily prices served concurrently by    *)
(* one event loop.  A request is suspended while get_auth_context awaits   *)
(* the Credential Store; other requests run in the meantime.  From the     *)
(* return of get_auth_context on nothing awaits until the quota check has  *)
(* stored the window: RateLimitService.check_rate_limit and the            *)
(* CacheService calls it makes never suspend.  inflight holds the requests *)
(* whose identity is resolved and whose quota check has not run yet.       *)
(***************************************************************************)
ConcurrentReqs ==
    {Req(<<>>, <<>>, tok, "none") : tok \in {tok \in issued : tok.sub = "bob"} \cup {NoToken}}
    \cup {Req(Key1, <<>>, NoToken, "none")}

\* get_auth_context and the authorization dependency of a request: it is
\* answered here when the authorization fails.  Requests in flight are told
\* apart by their order of arrival.
ConcurrentArrive ==
    \E req \in ConcurrentReqs :
    \E a \in {get_auth_context(req, users, api_keys, now)} :
    /\ served + Cardinality(inflight) < MaxRequests
    /\ IF auth_dependency(Route_get_daily_prices.dep, a.ctx) # 0
       THEN \E p \in {Pipeline(req, Route_get_daily_prices)} :
               Served("get_daily_prices", req, p, p.status)
       ELSE /\ inflight' = inflight \cup
                   {[arrival |-> served + Cardinality(inflight) + 1,
                     req |-> req, ctx |-> a.ctx]}
            /\ UNCHANGED <<_cache, served, hist, resp>>
    /\ api_keys' = a.keys
    /\ UNCHANGED <<users, issued, now>>

\* the quota check of a resumed request, in one piece, and its response
ConcurrentCheck ==
    \E c \in inflight :
    \E rl \in {RateLimitMiddleware_check_rate_limit(_cache, c.ctx, c.req.client_ip,
                                                    Route_get_daily_prices.endpoint,
                                                    now, c.req.fault)} :
    LET p == [ctx |-> c.ctx, keys |-> api_keys, checked |-> TRUE,
              cache_key |-> rl.cache_key, info |-> rl.info,
              retry_after |-> IF rl.status = 429 THEN rl.retry_after ELSE 0,
              cache |-> rl.cache, status |-> rl.status]
    IN
    /\ served' = served + 1
    /\ _cache' = p.cache
    /\ hist' = HistAfter(hist, p.cache_key, p.status, now)
    /\ resp' = Response("get_daily_prices", c.req, p,
                        IF p.status = 0 THEN 200 ELSE p.status)
    /\ inflight' = inflight \ {c}
    /\ UNCHANGED <<users, api_keys, issued, now>>

NextConcurrent == TickCoarse \/ TickFine \/ ConcurrentArrive \/ ConcurrentCheck

SpecConcurrent == Init /\ [][NextConcurrent]_vars

(***************************************************************************)
(* SpecAdmin: rate-limited reads and the cache administration route        *)
(***************************************************************************)
AdminClear ==
    \E prefix \in {"", "rate_limit_data", "stock_info"} :
        clear_cache(Req(<<>>, <<>>, NoToken, "none"), prefix)

NextAdmin == TickCoarse \/ TickFine \/ QuotaGet \/ AdminClear

SpecAdmin == Init /\ [][NextAdmin]_vars

(***************************************************************************)
(* SpecManage: the user-management routes called by the logged-in users    *)
(* and by the holder of the admin key, on every account                    *)
(***************************************************************************)
NextManage ==
    \/ TickCoarse
    \/ \E req \in TokenReqs \cup {Req(Key2, <<>>, NoToken, "none")},
          user_id \in DOMAIN users, is_active \in {"true", "false"} :
          served < MaxRequests /\ update_user(req, user_id, UserUpdate("none", is_active))
    \/ \E req \in TokenReqs \cup {Req(Key2, <<>>, NoToken, "none")},
          user_id \in DOMAIN users :
          served < MaxRequests /\ delete_user(req, user_id)
    \/ \E req \in TokenReqs \cup {Req(Key2, <<>>, NoToken, "none")},
          user_id \in DOMAIN users :
          served < MaxRequests /\ activate_user(req, user_id)
    \/ \E req \in TokenReqs \cup {Req(Key2, <<>>, NoToken, "none")},
          user_id \in DOMAIN users :
          served < MaxRequests /\ deactivate_user(req, user_id)

SpecManage == Init /\ [][NextManage]_vars

(***************************************************************************)
(* SpecRevoke: revocation of every key id by every logged-in user and by   *)
(* a key holder, and requests that present the keys                        *)
(***************************************************************************)
NextRevoke ==
    \/ TickCoarse
    \/ \E req \in TokenReqs \cup {Req(Key1, <<>>, NoToken, "none")},
          key_id \in {"k1", "k2", "k9"} :
          served < MaxRequests /\ revoke_api_key(req, key_id)
    \/ \E req \in {Req(k, <<>>, NoToken, "none") : k \in {Key1, Key2}} :
          served < MaxRequests /\ get_current_user(req)

SpecRevoke == Init /\ [][NextRevoke]_vars

(***************************************************************************)
(* Quota claims                                                            *)
(***************************************************************************)
Min(a, b) == IF a <= b THEN a ELSE b

\* time of the first checked request of the key of the last response
FirstOfKey == IF resp.prev.count = 0 THEN resp.at ELSE resp.prev.first

\* every checked request of that key so far lies inside one window
InOneWindow == resp.at - FirstOfKey < resp.info.window

\* C1: on a fresh key with limit L >= 1, the first L requests inside one
\* window are not answered 429, the (L+1)-th inside the same window is
\* answered 429, and a request issued more than W seconds after the first
\* one (the earlier ones having come in immediate succession) is admitted.
C1_FirstLAdmittedThenRejectedThenSlides ==
    (resp.checked /\ resp.info.limit >= 1) =>
        /\ (InOneWindow /\ resp.seq <= resp.info.limit) => resp.status # 429
        /\ (InOneWindow /\ resp.seq = resp.info.limit + 1) => resp.status = 429
        /\ (/\ resp.seq > 1
            /\ resp.prev.last = resp.prev.first
            /\ resp.at - FirstOfKey > resp.info.window) => resp.status # 429

\* C2: a request is answered 429 only if the occupancy of its key before
\* the request was already at or above the limit.
C2_NeverUnderAdmits ==
    (resp.checked /\ resp.status = 429) => resp.pre_occupancy >= resp.info.limit

\* C3: a request answered 429 leaves the stored timestamp sequence of its
\* key unchanged, and inside one window the occupancy of the key equals the
\* number of admitted requests capped at the limit.
C3_RejectsDoNotConsumeQuota ==
    resp.checked =>
        /\ resp.status = 429 => resp.post_requests = resp.pre_requests
        /\ InOneWindow =>
             Len(recent_of(resp.post_requests, resp.at - resp.info.window))
                 = Min(resp.admitted, resp.info.limit)

(***************************************************************************)
(* Credential claims.  The predicates below state, from the request and    *)
(* the collections before the request, what the credentials are.           *)
(***************************************************************************)
\* a step that serves a request
ServedStep == served' = served + 1

\* the API key value the request presents (header first, else the query)
PresentedKey(req) == IF req.api_key_header # <<>> THEN req.api_key_header
                     ELSE req.api_key_query

\* key k is stored, active, not past its expiry, and raw hashes to its hash
KeyRecordPasses(keys, k, raw, t) ==
    /\ k \in DOMAIN keys
    /\ keys[k].is_active
    /\ (keys[k].expires_at = NoTime \/ t <= keys[k].expires_at)
    /\ hash_api_key(raw) = keys[k].key_hash

\* the request presents "key_id:raw_key" of a key that passes every check
ValidKey(req, keys, t) ==
    /\ HasColon(PresentedKey(req))
    /\ \E k \in DOMAIN keys :
          /\ split_colon(PresentedKey(req))[1] = <<k>>
          /\ KeyRecordPasses(keys, k, split_colon(PresentedKey(req))[2], t)

\* signed by this service, of type access, with a username, not expired
ValidToken(tok, t) ==
    tok.sig = "valid" /\ tok.type = "access" /\ tok.sub # "" /\ t <= tok.exp

\* the users whose username the token carries
TokenUsers(usrs, tok) == {u \in DOMAIN usrs : usrs[u].username = tok.sub}

\* C4 (as claimed): a request with a valid API key and a valid bearer token
\* is given the API-key identity, with no user.
C4_ApiKeyWins ==
    [][(/\ ServedStep
        /\ resp'.req.fault \notin {"find_key", "find_user"}
        /\ ValidKey(resp'.req, api_keys, now)
        /\ ValidToken(resp'.req.credentials, now))
       => (resp'.ctx.auth_type = "api_key" /\ resp'.ctx.user = NoUser)]_vars

\* the API-key authentication of the request does not yield a key
KeyAuthFails(req, keys, t) ==
    ~ValidKey(req, keys, t) \/ req.fault \in {"find_key", "update_key"}

\* the bearer-token authentication of the request yields user u
TokenAuthYields(req, usrs, t, u) ==
    /\ ValidToken(req.credentials, t)
    /\ req.fault # "find_user"
    /\ u \in TokenUsers(usrs, req.credentials)
    /\ usrs[u].is_active

\* C5: when an API key is supplied and its authentication fails, the
\* identity is the live active user of a valid bearer token if there is
\* one, else Anonymous, and the request is not answered with a server error.
C5_FallbackToBearerThenAnonymous ==
    [][(ServedStep /\ PresentedKey(resp'.req) # <<>>
        /\ KeyAuthFails(resp'.req, api_keys, now))
       => /\ \A u \in DOMAIN users :
                TokenAuthYields(resp'.req, users, now, u)
                    => resp'.ctx = AuthContext(users[u], NoKey, "jwt")
          /\ (~\E u \in DOMAIN users : TokenAuthYields(resp'.req, users, now, u))
                => resp'.ctx = Anonymous
          /\ resp'.status \notin {500, 503}]_vars

C5_Witness ==
    /\ resp.handler = "get_current_user"
    /\ resp.req.api_key_header = <<"k1", ":", "bad">>
    /\ resp.ctx.auth_type = "jwt"
    /\ resp.ctx.user.id = "u2"

\* C6: a request with the unexpired token of a user whose live record is
\* inactive, and with no valid API key, is Anonymous and is denied (401).
C6_DeactivatedUserDenied ==
    [][(/\ ServedStep
        /\ resp'.req.credentials \in issued
        /\ now <= resp'.req.credentials.exp
        /\ \E u \in TokenUsers(users, resp'.req.credentials) : ~users[u].is_active
        /\ ~ValidKey(resp'.req, api_keys, now))
       => (resp'.ctx = Anonymous /\ resp'.status = 401)]_vars

C6_Witness ==
    /\ resp.handler = "get_current_user"
    /\ resp.req.credentials \in issued
    /\ resp.req.credentials.sub = "bob"
    /\ resp.at <= resp.req.credentials.exp
    /\ ~users["u2"].is_active
    /\ resp.ctx = Anonymous
    /\ resp.status = 401

\* C7: an API-key identity is returned only for a stored, active, unexpired
\* key whose hash matches the raw key presented; an inactive key never
\* authenticates, even with the correct raw key.
C7_AuthenticateApiKeyOnlyIf ==
    [][ServedStep =>
         /\ resp'.ctx.api_key # NoKey =>
              /\ HasColon(PresentedKey(resp'.req))
              /\ split_colon(PresentedKey(resp'.req))[1] = <<resp'.ctx.api_key.key_id>>
              /\ KeyRecordPasses(api_keys, resp'.ctx.api_key.key_id,
                                 split_colon(PresentedKey(resp'.req))[2], now)
              /\ resp'.ctx.api_key = api_keys[resp'.ctx.api_key.key_id]
         /\ \A k \in DOMAIN api_keys :
              ~api_keys[k].is_active => resp'.ctx.api_key.key_id # k]_vars

C7_Witness ==
    /\ resp.handler = "get_current_user"
    /\ resp.req.api_key_header = Key1
    /\ resp.req.fault = "none"
    /\ ~api_keys["k1"].is_active
    /\ resp.ctx.api_key = NoKey

(***************************************************************************)
(* Authorization claims                                                    *)
(***************************************************************************)
\* the scope a handler requires
RequiredScope == IF resp.handler = "create_daily_price" THEN "write" ELSE "read"

ScopeRoutes == {"get_daily_prices", "create_daily_price"}

\* C8 (as claimed): an API-key identity passes the scope check for S iff
\* its scopes contain admin or S; a key with only read is answered 403 on
\* a route that requires write.
C8_ApiKeyScopeCheck ==
    (resp.handler \in ScopeRoutes /\ resp.ctx.auth_type = "api_key") =>
        /\ (resp.status # 403) <=>
             ("admin" \in resp.ctx.api_key.scopes
                \/ RequiredScope \in resp.ctx.api_key.scopes)
        /\ \A S \in APIKeyScope :
             truthy(AuthContext_has_scope(resp.ctx, S)) <=>
                ("admin" \in resp.ctx.api_key.scopes \/ S \in resp.ctx.api_key.scopes)

\* what a role is worth in scopes
RoleAllows(role, S) ==
    \/ role = "admin"
    \/ role = "user" /\ S \in {"read", "write"}
    \/ role = "readonly" /\ S = "read"

\* C9: for a User identity the scope check is decided by the role alone:
\* admin every scope, user read and write, readonly read only.
C9_UserScopeByRole ==
    resp.ctx.auth_type = "jwt" =>
        /\ \A S \in APIKeyScope :
             truthy(AuthContext_has_scope(resp.ctx, S)) <=> RoleAllows(resp.ctx.user.role, S)
        /\ resp.handler \in ScopeRoutes =>
             ((resp.status = 403) <=> ~RoleAllows(resp.ctx.user.role, RequiredScope))

C9_Witness ==
    /\ resp.handler = "create_daily_price"
    /\ resp.ctx.auth_type = "jwt"
    /\ resp.ctx.user.role = "readonly"
    /\ resp.status = 403

\* C10: has_role(R) holds iff the identity has a user record whose role is
\* admin or R; identities without a user record (Anonymous, API keys) are
\* denied, so an API key is answered 403 on an admin route.
C10_RoleCheck ==
    /\ \A R \in UserRole :
         has_role(resp.ctx, R) <=>
            (resp.ctx.user # NoUser /\ resp.ctx.user.role \in {"admin", R})
    /\ resp.ctx.user = NoUser => \A R \in UserRole : ~has_role(resp.ctx, R)
    /\ (resp.handler = "update_user" /\ is_authenticated(resp.ctx)) =>
         ((resp.status = 403) <=>
            ~(resp.ctx.user # NoUser /\ resp.ctx.user.role = "admin"))

C10_Witness ==
    /\ resp.handler = "update_user"
    /\ resp.ctx.auth_type = "api_key"
    /\ "admin" \in resp.ctx.api_key.scopes
    /\ resp.status = 403

(***************************************************************************)
(* Dependency claims                                                       *)
(***************************************************************************)
\* the authorization dependency declared by the handler of the last response
DepOf(handler) ==
    IF handler = "get_daily_prices" THEN Route_get_daily_prices.dep
    ELSE IF handler = "create_daily_price" THEN Route_create_daily_price.dep
    ELSE IF handler = "get_current_user" THEN Route_get_current_user.dep
    ELSE IF handler = "revoke_api_key" THEN Route_revoke_api_key.dep
    ELSE IF handler = "update_user" THEN Route_update_user.dep
    ELSE IF handler = "delete_user" THEN Route_delete_user.dep
    ELSE IF handler = "activate_user" THEN Route_activate_user.dep
    ELSE IF handler = "deactivate_user" THEN Route_deactivate_user.dep
    ELSE "none"

\* the answer of the resolver (has_role / has_scope) to what dep requires
ResolverAllows(ctx, dep) ==
    IF dep = "require_admin" THEN has_role(ctx, "admin")
    ELSE IF dep = "require_read_access" THEN truthy(AuthContext_has_scope(ctx, "read"))
    ELSE IF dep = "require_write_access" THEN truthy(AuthContext_has_scope(ctx, "write"))
    ELSE TRUE

\* the handler body ran: every dependency passed
HandlerReached == resp.checked /\ resp.status # 429

IdentityLimit(ctx) ==
    IF ctx.user # NoUser THEN ctx.user.rate_limit_requests
    ELSE IF ctx.api_key # NoKey THEN ctx.api_key.rate_limit_requests
    ELSE default_limit

\* the quota store raised during the check of the last request: the lookup,
\* or the persist (which is attempted when the occupancy is below the limit)
StoreRaised ==
    /\ resp.checked
    /\ \/ resp.req.fault = "cache_get"
       \/ resp.req.fault = "cache_set" /\ resp.pre_occupancy < IdentityLimit(resp.ctx)

\* C12: when the quota store lookup or persist raises, the request is not
\* answered 429, the check returns a result with a positive remaining value
\* and the handler runs.
C12_QuotaFailsOpen ==
    StoreRaised =>
        /\ resp.status # 429
        /\ resp.info.requests_remaining > 0
        /\ HandlerReached
        /\ resp.handler = "get_daily_prices" => resp.status = 200

\* the lookup raises for a key whose window is full
C12_Witness ==
    /\ StoreRaised
    /\ resp.req.fault = "cache_get"
    /\ resp.pre_occupancy >= IdentityLimit(resp.ctx)
    /\ resp.status = 200

(***************************************************************************)
(* Credential Store failure claims                                         *)
(***************************************************************************)
\* a lookup of the Credential Store raises while the request is being
\* authenticated: the key lookup of a well-formed API key value, or the user
\* lookup of a valid token that is reached because no API key authenticates
LookupRaises(req, keys, t) ==
    \/ req.fault = "find_key" /\ HasColon(PresentedKey(req))
    \/ /\ req.fault = "find_user"
       /\ ValidToken(req.credentials, t)
       /\ ~ValidKey(req, keys, t)

\* C13 (as claimed): when the user or API-key lookup raises while
\* credentials are presented, the request is answered 503 and is continued
\* neither as Anonymous nor as an authenticated identity.
C13_AuthFailsClosed ==
    [][(ServedStep /\ LookupRaises(resp'.req, api_keys, now))
       => (resp'.status = 503 /\ ~resp'.checked)]_vars

\* C14 (as claimed): when the key record, active flag, expiry and hash of
\* the presented API key all pass, the request is authenticated as that API
\* key whether or not the usage update succeeds.
C14_UsageRecordingIsolated ==
    [][(/\ ServedStep
        /\ resp'.req.fault \in {"none", "update_key"}
        /\ ValidKey(resp'.req, api_keys, now))
       => /\ resp'.ctx.auth_type = "api_key"
          /\ <<resp'.ctx.api_key.key_id>> = split_colon(PresentedKey(resp'.req))[1]]_vars

(***************************************************************************)
(* Token claims                                                            *)
(***************************************************************************)
\* a token and what becomes of it when the signature is broken, the type
\* tag is another one, or the username is missing
TokenVariants(tok) ==
    {tok, [tok EXCEPT !.sig = "invalid"], [tok EXCEPT !.type = "refresh"],
     [tok EXCEPT !.sub = ""]}

\* verify_token on the tokens issued by create_access_token (iss) and on
\* their variants, at time t
TokenContract(iss, t) ==
    /\ \A tok0 \in iss : \A tok \in TokenVariants(tok0) :
          verify_token(tok, t).ok =>
              (tok.sig = "valid" /\ tok.type = "access" /\ tok.sub # "" /\ t <= tok.exp)
    /\ \A tok \in iss :
          /\ t >= tok.iat + TokenTTL + 1 => ~verify_token(tok, t).ok
          /\ t < tok.iat + TokenTTL =>
                verify_token(tok, t) = [ok |-> TRUE, username |-> tok.sub,
                                        user_id |-> tok.user_id, role |-> tok.role]

\* a token issued in this step carries the username, id and role of a user
\* record of this moment, and verifies at once to exactly these
IssuedFromRecord ==
    \A tok \in issued' \ issued :
        /\ tok.iat = now /\ tok.exp = now + TokenTTL
        /\ \E u \in DOMAIN users :
              verify_token(tok, now) = [ok |-> TRUE, username |-> users[u].username,
                                        user_id |-> users[u].id, role |-> users[u].role]

\* C15: verify_token succeeds only for a token with a valid signature, the
\* type tag "access", a username and an expiry that has not passed; a token
\* issued with ttl T fails from 1 second after issued-at + T on, and before
\* its expiry verifies to the username, user id and role encoded at issuance.
C15_VerifyToken ==
    [][TokenContract(issued, now) /\ TokenContract(issued', now') /\ IssuedFromRecord]_vars

\* a token of the initial logins has expired while a later one verifies
C15_Witness ==
    /\ \E tok \in issued : tok.iat = 0 /\ now >= tok.iat + TokenTTL + 1
                             /\ ~verify_token(tok, now).ok
    /\ \E tok \in issued : tok.iat > 0 /\ verify_token(tok, now).ok

(***************************************************************************)
(* Password claims                                                         *)
(***************************************************************************)
\* the kinds of character that occur in a password
KindsIn(password) ==
    {k \in {"upper", "lower", "digit", "special"} :
        \E i \in 1..Len(chars(password)) :
            \/ k = "upper" /\ isupper(chars(password)[i])
            \/ k = "lower" /\ islower(chars(password)[i])
            \/ k = "digit" /\ isdigit(chars(password)[i])
            \/ k = "special" /\ chars(password)[i] \in SPECIAL_CHARS}

\* length >= 8 and at least 3 of the 4 kinds
StrongPassword(password) ==
    Len(chars(password)) >= 8 /\ Cardinality(KindsIn(password)) >= 3

\* the step registers a user under a free username, and the dependencies
\* of the route passed: the password decides
RegisterDecidedByPassword ==
    /\ ServedStep /\ resp'.handler = "register_user" /\ resp'.checked
    /\ resp'.status # 429
    /\ get_user_by_username(users, resp'.req.body.username) = NoUser

\* the step changes the password of the logged-in user, who gave the
\* current password, and the dependencies of the route passed
ChangeDecidedByPassword ==
    /\ ServedStep /\ resp'.handler = "change_password" /\ resp'.checked
    /\ resp'.status # 429
    /\ resp'.ctx.user # NoUser
    /\ verify_password(resp'.req.body.current_password,
                       users[resp'.ctx.user.id].hashed_password)

\* C16 (as claimed): a password is accepted by registration and by password
\* change iff its length is >= 8 and it has at least 3 of the 4 kinds of
\* character; a rejection is answered 400 and stores nothing.
C16_PasswordStrengthGate ==
    [][/\ RegisterDecidedByPassword =>
            /\ (resp'.status = 200) <=> StrongPassword(resp'.req.body.password)
            /\ resp'.status = 200 =>
                  \E u \in DOMAIN users' \ DOMAIN users :
                      users'[u].hashed_password = get_password_hash(resp'.req.body.password)
            /\ resp'.status # 200 => (resp'.status = 400 /\ users' = users)
       /\ ChangeDecidedByPassword =>
            /\ (resp'.status = 200) <=> StrongPassword(resp'.req.body.new_password)
            /\ resp'.status = 200 =>
                  users'[resp'.ctx.user.id].hashed_password
                      = get_password_hash(resp'.req.body.new_password)
            /\ resp'.status # 200 => (resp'.status = 400 /\ users' = users)]_vars

(***************************************************************************)
(* Quota window claims                                                     *)
(***************************************************************************)
\* the window length a stored entry was written with (its ttl less the margin)
WindowOfEntry(cache_entry) ==
    cache_entry.expires_at - cache_entry.created_at - TTL_MARGIN

\* no timestamp of l is older than t - window
NoneOlder(l, t, window) ==
    \A i \in 1..Len(l) : fromisoformat(l[i]) >= t - window

\* the number of timestamps of l inside the window that trails t
InWindowCount(l, t, window) ==
    Cardinality({i \in 1..Len(l) : fromisoformat(l[i]) > t - window})

\* C17 (as claimed): in every reachable state the stored timestamp sequence
\* of a quota window holds no timestamp older than now - window, and the
\* requests_made a check reports is the number of timestamps of the key
\* inside the trailing window.
C17_WindowNeverStale ==
    /\ \A k \in DOMAIN _cache :
          NoneOlder(_cache[k].data.requests, now, WindowOfEntry(_cache[k]))
    /\ resp.checked =>
          resp.info.requests_made
              = InWindowCount(resp.post_requests, resp.at, resp.info.window)

\* C17 (amended): a check that the quota store answered reports as
\* requests_made the number of timestamps of the key inside the trailing
\* window, and when it records the request (occupancy below the limit) the
\* sequence it stores holds the request's own timestamp and none older than
\* now - window.
C17_WindowPrunedOnRecord ==
    (resp.checked /\ ~StoreRaised) =>
        /\ resp.info.requests_made
              = InWindowCount(resp.post_requests, resp.at, resp.info.window)
        /\ resp.pre_occupancy < resp.info.limit =>
              /\ NoneOlder(resp.post_requests, resp.at, resp.info.window)
              /\ resp.post_requests # <<>>
              /\ resp.post_requests[Len(resp.post_requests)] = isoformat(resp.at)

\* a check finds a timestamp older than now - window in the stored sequence
\* and records the request
C17_Witness ==
    /\ resp.checked /\ ~StoreRaised
    /\ resp.pre_occupancy < resp.info.limit
    /\ ~NoneOlder(resp.pre_requests, resp.at, resp.info.window)
    /\ resp.post_requests = <<isoformat(resp.at)>>

\* the identity a quota key belongs to: "user" / "api_key" / "ip" and the id
IdentityOfKey(cache_key) == SubSeq(cache_key, 2, 3)

\* C18 (as claimed): the quota window is keyed by the identity alone: the
\* window a request is checked against is the only window stored for its
\* identity, whatever routes and methods the identity has requested before.
C18_OneWindowPerIdentity ==
    [][(ServedStep /\ resp'.checked) =>
          \A k \in DOMAIN _cache :
              IdentityOfKey(k) = IdentityOfKey(resp'.cache_key) => k = resp'.cache_key]_vars

\* every window but the one of cache_key is the same in c1 and c2
OtherWindowsSame(c1, c2, cache_key) ==
    \A k \in (DOMAIN c1 \cup DOMAIN c2) \ {cache_key} :
        k \in DOMAIN c1 /\ k \in DOMAIN c2 /\ c1[k] = c2[k]

\* C19: a request with an authenticated identity is checked against the
\* window of that user or API key alone, with the limit and window length of
\* that identity's record; an IP window is the one checked only when the
\* request is Anonymous, then with the default unauthenticated limit, and no
\* other window is written.
C19_IdentityBeforeIp ==
    [][(ServedStep /\ resp'.checked /\ ~StoreRaised') =>
          /\ resp'.ctx.user # NoUser =>
                /\ IdentityOfKey(resp'.cache_key) = <<"user", resp'.ctx.user.id>>
                /\ resp'.info.limit = users[resp'.ctx.user.id].rate_limit_requests
                /\ resp'.info.window = users[resp'.ctx.user.id].rate_limit_window
          /\ (resp'.ctx.user = NoUser /\ resp'.ctx.api_key # NoKey) =>
                /\ IdentityOfKey(resp'.cache_key) = <<"api_key", resp'.ctx.api_key.key_id>>
                /\ resp'.info.limit = api_keys[resp'.ctx.api_key.key_id].rate_limit_requests
                /\ resp'.info.window = api_keys[resp'.ctx.api_key.key_id].rate_limit_window
          /\ (IdentityOfKey(resp'.cache_key)[1] = "ip") <=> ~is_authenticated(resp'.ctx)
          /\ ~is_authenticated(resp'.ctx) =>
                /\ IdentityOfKey(resp'.cache_key) = <<"ip", resp'.req.client_ip>>
                /\ resp'.info.limit = unauthenticated_rate_limit
                /\ resp'.info.window = default_window
          /\ OtherWindowsSame(_cache, _cache', resp'.cache_key)]_vars

\* an IP window is stored, and a request with a bearer token is recorded in
\* the window of the token's user
C19_Witness ==
    /\ resp.checked /\ ~StoreRaised /\ resp.status = 200
    /\ resp.ctx.user # NoUser
    /\ IdentityOfKey(resp.cache_key) = <<"user", resp.ctx.user.id>>
    /\ resp.post_requests # resp.pre_requests
    /\ \E k \in DOMAIN _cache : IdentityOfKey(k) = <<"ip", resp.req.client_ip>>

\* C20 (as claimed): the quota check runs for every request, whatever the
\* route and whatever the answer: every response is that of a request whose
\* window was checked.
C20_EveryRequestChecked ==
    resp.handler # "none" => resp.checked

RoleSatisfies(role, dep) ==
    IF dep = "require_admin" THEN role = "admin"
    ELSE IF dep = "require_read_access" THEN role \in {"admin", "user", "readonly"}
    ELSE IF dep = "require_write_access" THEN role \in {"admin", "user"}
    ELSE TRUE

\* C22: a request authenticated by a bearer token carries the user record
\* as stored when the request is served, and is answered 403 exactly when
\* the stored role does not satisfy the dependency of the route, whatever
\* role the token was issued with.
C22_LiveRoleDecides ==
    [][(ServedStep /\ resp'.ctx.auth_type = "jwt") =>
          \E u \in DOMAIN users :
              /\ users[u].username = resp'.req.credentials.sub
              /\ resp'.ctx.user = users[u]
              /\ (resp'.status = 403)
                    <=> ~RoleSatisfies(users[u].role, DepOf(resp'.handler))]_vars

\* a token issued to an admin is denied on an admin route after the role
\* of its user was changed
C22_Witness ==
    /\ resp.handler = "update_user"
    /\ resp.ctx.auth_type = "jwt"
    /\ resp.req.credentials.role = "admin"
    /\ resp.ctx.user.role # "admin"
    /\ resp.status = 403

(***************************************************************************)
(* Probing claims                                                          *)
(***************************************************************************)
\* the route of a handler
RouteOf(handler) ==
    IF handler = "get_daily_prices" THEN Route_get_daily_prices
    ELSE Route_get_current_user

\* the request presents a credential and none of what it presents
\* authenticates
CredentialsFail(req, usrs, keys, t) ==
    /\ PresentedKey(req) # <<>> \/ req.credentials # NoToken
    /\ ~ValidKey(req, keys, t)
    /\ ~\E u \in DOMAIN usrs : TokenAuthYields(req, usrs, t, u)

\* C23: on a protected route the response to a request whose credentials
\* fail (status, quota headers, Retry-After) and what it leaves in the
\* stores are those of the same request without credentials.
C23_FailureLooksAbsent ==
    [][(ServedStep /\ resp'.handler \in {"get_current_user", "get_daily_prices"}
          /\ resp'.req.fault = "none"
          /\ CredentialsFail(resp'.req, users, api_keys, now))
       => \E q \in {Pipeline(Req(<<>>, <<>>, NoToken, "none"), RouteOf(resp'.handler))} :
             /\ resp'.status = q.status
             /\ resp'.status = 401
             /\ resp'.ctx = q.ctx
             /\ resp'.checked = q.checked
             /\ resp'.info = q.info
             /\ resp'.retry_after = q.retry_after
             /\ _cache' = q.cache
             /\ api_keys' = q.keys
             /\ users' = users]_vars

\* the correct secret of a revoked key is answered like no credentials
C23_Witness ==
    /\ resp.handler = "get_daily_prices"
    /\ resp.req.api_key_header = Key1
    /\ ~api_keys["k1"].is_active
    /\ resp.status = 401

(***************************************************************************)
(* Reported quota values                                                   *)
(***************************************************************************)
\* the earliest timestamp of l inside the window that trails t
EarliestInWindow(l, t, window) ==
    CHOOSE m \in {fromisoformat(l[i]) : i \in 1..Len(l)} :
        /\ m > t - window
        /\ \A i \in 1..Len(l) : fromisoformat(l[i]) > t - window => m <= fromisoformat(l[i])

\* C24 (as claimed): a check that finds the window full reports
\* requests_remaining = 0 and reset_time = earliest retained timestamp +
\* window; a check that finds room reports the size of the updated
\* occupancy, limit - that size, and reset_time = now + window; and a
\* request for the key at the reset_time reported by a rejection, with no
\* request in between, is admitted (not answered 429).
C24_ReportedValues ==
    [][(ServedStep /\ resp'.checked) =>
          /\ (resp'.pre_occupancy >= resp'.info.limit /\ resp'.info.limit > 0) =>
                /\ resp'.info.requests_remaining = 0
                /\ resp'.info.reset_time
                      = EarliestInWindow(resp'.pre_requests, now, resp'.info.window)
                          + resp'.info.window
          /\ resp'.pre_occupancy < resp'.info.limit =>
                /\ resp'.info.requests_made
                      = InWindowCount(resp'.post_requests, now, resp'.info.window)
                /\ resp'.info.requests_made = resp'.pre_occupancy + 1
                /\ resp'.info.requests_remaining
                      = resp'.info.limit - resp'.info.requests_made
                /\ resp'.info.reset_time = now + resp'.info.window
          /\ (/\ resp.checked
              /\ resp.pre_occupancy >= resp.info.limit
              /\ resp.cache_key = resp'.cache_key
              /\ resp.info.reset_time = now) => resp'.status # 429]_vars

(***************************************************************************)
(* Registration claims                                                     *)
(***************************************************************************)
\* no two stored users share a username or an e-mail
UniqueUsers ==
    \A u, v \in DOMAIN users :
        u # v => /\ users[u].username # users[v].username
                 /\ users[u].email # users[v].email

\* a stored user has the username or the e-mail of the body
Exists(user_data) ==
    \E u \in DOMAIN users : \/ users[u].username = user_data.username
                            \/ users[u].email = user_data.email

\* C25: after any interleaving of concurrent create_user calls no two
\* stored users share a username or an e-mail, and a create_user whose
\* username or e-mail already exists is answered 400 and inserts nothing:
\* a document is inserted only when no stored user has its username or its
\* e-mail.
C25_UsersStayUnique ==
    [][/\ UniqueUsers'
       /\ \A u \in DOMAIN users' \ DOMAIN users :
              ~Exists([username |-> users'[u].username, email |-> users'[u].email])
       /\ (ServedStep /\ resp'.handler = "register_user" /\ resp'.status \in {200, 400}
             /\ Exists(resp'.req.body))
            => resp'.status = 400 /\ users' = users]_vars

(***************************************************************************)
(* Concurrent quota claims                                                 *)
(***************************************************************************)
\* the limit a quota key is checked against
LimitOfKey(cache_key) ==
    IF cache_key[2] = "user" THEN users[cache_key[3]].rate_limit_requests
    ELSE IF cache_key[2] = "api_key" THEN api_keys[cache_key[3]].rate_limit_requests
    ELSE default_limit

Max(a, b) == IF a >= b THEN a ELSE b

\* C26: within one process, under any interleaving of concurrent requests
\* for a key with limit L, the number of recorded timestamps of the key
\* inside the trailing window never exceeds max(L, 0), and two requests
\* never both take the last free slot: a request is recorded only when the
\* live window holds fewer than L timestamps, and recording it makes the
\* live window one longer.
C26_NoOverAdmission ==
    [][/\ \A k \in DOMAIN _cache' :
              InWindowCount(_cache'[k].data.requests, now', WindowOfEntry(_cache'[k]))
                  <= Max(LimitOfKey(k), 0)
       /\ (ServedStep /\ resp'.checked
             /\ StoredRequests(_cache', resp'.cache_key)
                    # StoredRequests(_cache, resp'.cache_key))
            => /\ Len(Occupancy(_cache, resp'.cache_key, resp'.info.window, now))
                     < LimitOfKey(resp'.cache_key)
               /\ InWindowCount(StoredRequests(_cache', resp'.cache_key), now,
                                resp'.info.window)
                     = Len(Occupancy(_cache, resp'.cache_key, resp'.info.window, now)) + 1
      ]_vars

\* a request has taken the last free slot of a key while another request
\* of the same identity, suspended at the same time, is still to be checked
C26_Witness ==
    /\ resp.checked
    /\ resp.pre_occupancy = resp.info.limit - 1
    /\ resp.info.requests_remaining = 0
    /\ resp.post_requests # resp.pre_requests
    /\ \E c \in inflight : c.ctx = resp.ctx /\ resp.at = now

(***************************************************************************)
(* Quota retention claims                                                  *)
(***************************************************************************)
\* the timestamps stored for a key that are inside its trailing window at
\* time t, in an entry that has not expired at t
Retained(c, key, t) ==
    IF _is_expired(c[key], t) THEN {}
    ELSE {c[key].data.requests[i] : i \in
             {j \in 1..Len(c[key].data.requests) :
                 fromisoformat(c[key].data.requests[j]) > t - WindowOfEntry(c[key])}}

\* C27: quota state of a key is removed only by its TTL expiry or by
\* reset_rate_limit for that key (which no route calls): no request, in
\* particular none from an unauthenticated caller and none for another
\* key, discards a recorded timestamp of a key that is still inside the
\* key's window.
C27_QuotaStateKept ==
    [][\A k \in DOMAIN _cache :
          Retained(_cache, k, now') # {} =>
              /\ k \in DOMAIN _cache'
              /\ Retained(_cache, k, now') \subseteq
                     {_cache'[k].data.requests[i] : i \in 1..Len(_cache'[k].data.requests)}
      ]_vars

(***************************************************************************)
(* Deactivated account claims                                              *)
(***************************************************************************)
\* C28: after a user account is deactivated no credential of that user
\* authenticates any more: the identity of a request is neither the
\* deactivated user nor an API key owned by the deactivated user, even when
\* the key is active and unexpired and the secret is correct.
C28_DeactivatedOwnerLocksKeys ==
    [][ServedStep =>
          \A u \in DOMAIN users :
              ~users[u].is_active =>
                  /\ resp'.ctx.user.id # u
                  /\ resp'.ctx.api_key.user_id # u]_vars

(***************************************************************************)
(* User management claims                                                  *)
(***************************************************************************)
ManagementHandlers == {"update_user", "delete_user", "activate_user", "deactivate_user"}

\* C29: an admin can never deactivate their own account through the
\* user-management endpoints: a request of these routes made by an admin
\* identity whose own record is active leaves that record active, and a
\* delete or deactivate request answered 400 changes no user.
C29_AdminStaysActive ==
    [][(ServedStep /\ resp'.handler \in ManagementHandlers
          /\ resp'.status \notin {401, 403, 429})
         => /\ \A u \in DOMAIN users :
                  (AuthContext_user_id(resp'.ctx) = u /\ users[u].is_active)
                      => users'[u].is_active
            /\ resp'.status = 400 => users' = users]_vars

(***************************************************************************)
(* Key revocation claims                                                   *)
(***************************************************************************)
\* the revocation ran: the dependencies passed and the caller is a user
RevokeRan ==
    /\ ServedStep
    /\ resp'.handler = "revoke_api_key"
    /\ resp'.status \in {200, 404}

\* a revocation that matched leaves exactly that key inactive and is
\* answered 200, one that did not changes no key and is answered 404
RevokeEffect(matched) ==
    IF matched
    THEN /\ resp'.status = 200
         /\ api_keys' = [api_keys EXCEPT ![resp'.req.key_id].is_active = FALSE]
    ELSE /\ resp'.status = 404
         /\ api_keys' = api_keys

\* no step sets is_active of a key back to true, and an inactive key is
\* not the identity of any request
RevokedForGood ==
    \A k \in DOMAIN api_keys :
        ~api_keys[k].is_active =>
            /\ k \in DOMAIN api_keys' /\ ~api_keys'[k].is_active
            /\ ServedStep => resp'.ctx.api_key.key_id # k

\* C30 (as claimed): revoke_api_key(user_id, key_id) sets is_active to false
\* for exactly the key with that key_id when it is owned by user_id and
\* returns true; when the key does not exist or is owned by another user it
\* returns false and changes no key; no operation sets is_active back to
\* true, so a revoked key never authenticates again.
C30_RevokeOwnedKey ==
    [][/\ RevokeRan =>
              RevokeEffect(/\ resp'.req.key_id \in DOMAIN api_keys
                           /\ api_keys[resp'.req.key_id].user_id = resp'.ctx.user.id)
       /\ RevokedForGood]_vars

\* C30 (amended): revoke_api_key(user_id, key_id) sets is_active to false
\* for exactly the key with that key_id when it is owned by user_id and
\* still active, and returns true; when the key does not exist, is owned
\* by another user or is already inactive it returns false and changes no
\* key; no operation sets is_active back to true, so a revoked key never
\* authenticates again.
C30_RevokeActiveOwnedKey ==
    [][/\ RevokeRan =>
              RevokeEffect(/\ resp'.req.key_id \in DOMAIN api_keys
                           /\ api_keys[resp'.req.key_id].user_id = resp'.ctx.user.id
                           /\ api_keys[resp'.req.key_id].is_active)
       /\ RevokedForGood]_vars

\* a user has revoked one of their keys while another key is still active
C30_Witness ==
    /\ resp.handler = "revoke_api_key"
    /\ resp.status = 200
    /\ ~api_keys[resp.req.key_id].is_active
    /\ api_keys[resp.req.key_id].user_id = resp.ctx.user.id
    /\ \E k \in DOMAIN api_keys : api_keys[k].is_active

====
